---------------------------- MODULE Spec2Model ----------------------------
(***************************************************************************)
(* Model of entangled_states_main.py: the Bell-state selector cycled by    *)
(* the pygame main loop, the circuit built for it, the five views that     *)
(* are recomputed from the circuit, and the HBox/VBox layout groups.       *)
(*                                                                         *)
(* Amplitudes are exact: a statevector is a tuple of integer numerators    *)
(* over a common denominator sqrt(2)^h, h the number of Hadamard gates     *)
(* applied.  The values the simulator hands back (decimals=3) are          *)
(* integers in thousandths.                                                *)
(***************************************************************************)
EXTENDS Integers, Sequences, FiniteSets, TLC

(***************************************************************************)
(* Program constants.                                                      *)
(***************************************************************************)
PHI_PLUS == 0
PHI_MINUS == 1
PSI_PLUS == 2
PSI_MINUS == 3
NUM_BELL_STATES == 4
DEFAULT_NUM_SHOTS == 100

\* COMP_BASIS_STATES[y] for y in 0..3 (Python index y is y + 1 here)
COMP_BASIS_STATES == <<"00", "01", "10", "11">>

\* block_size, x_offset, y_offset of the two grid views
block_size == 30
x_offset == 50
y_offset == 50

(***************************************************************************)
(* Bounds of the model.                                                    *)
(***************************************************************************)
\* events one pygame.event.get() call returns at most
MaxBatch == 2

\* sizes of the images matplotlib writes and load_image reads back: the
\* circuit drawing is sized by the circuit drawn, the two plots by the
\* figure size of their plot function
DiagramSizes == {<<640, 480>>, <<420, 300>>}
HistogramSizes == {<<700, 500>>}
SphereSizes == {<<700, 700>>}

(***************************************************************************)
(* Circuits and their simulation.                                          *)
(***************************************************************************)
Basis == 0..3

GateX(q) == [gate |-> "x", qubits |-> <<q>>]
GateH(q) == [gate |-> "h", qubits |-> <<q>>]
GateCX(c, t) == [gate |-> "cx", qubits |-> <<c, t>>]

\* create_bell_circuit: the gates appended to the 2-qubit circuit, in order
XOnQ0_wrong(bell_state_type) ==
    bell_state_type = PHI_MINUS \/ bell_state_type = PSI_PLUS

XOnQ0(bell_state_type) ==
    bell_state_type = PHI_MINUS \/ bell_state_type = PSI_MINUS

XOnQ1_wrong(bell_state_type) ==
    bell_state_type = PHI_MINUS \/ bell_state_type = PSI_MINUS

XOnQ1(bell_state_type) ==
    bell_state_type = PSI_PLUS \/ bell_state_type = PSI_MINUS

create_bell_circuit(bell_state_type) ==
    (IF XOnQ0(bell_state_type) THEN <<GateX(0)>> ELSE <<>>)
      \o (IF XOnQ1(bell_state_type) THEN <<GateX(1)>> ELSE <<>>)
      \o <<GateH(0), GateCX(0, 1)>>

\* bit q of basis index i; qubit 0 is the least significant bit, so the
\* label of index i is the string q1 q0, COMP_BASIS_STATES[i + 1]
Bit(i, q) == (i \div (2 ^ q)) % 2
Flip(i, q) == IF Bit(i, q) = 0 THEN i + 2 ^ q ELSE i - 2 ^ q

\* |00>
ZeroState == [amp |-> [i \in Basis |-> IF i = 0 THEN 1 ELSE 0], h |-> 0]
BasisState(x) == [amp |-> [i \in Basis |-> IF i = x THEN 1 ELSE 0], h |-> 0]

ApplyGate(g, st) ==
    LET q == g.qubits[1] IN
    CASE g.gate = "x" ->
           [amp |-> [i \in Basis |-> st.amp[Flip(i, q)]], h |-> st.h]
      [] g.gate = "h" ->
           [amp |-> [i \in Basis |->
                       IF Bit(i, q) = 0
                       THEN st.amp[i] + st.amp[Flip(i, q)]
                       ELSE st.amp[Flip(i, q)] - st.amp[i]],
            h |-> st.h + 1]
      [] g.gate = "cx" ->
           [amp |-> [i \in Basis |->
                       IF Bit(i, q) = 1
                       THEN st.amp[Flip(i, g.qubits[2])]
                       ELSE st.amp[i]],
            h |-> st.h]

RECURSIVE RunFrom(_, _, _)
RunFrom(circ, k, st) ==
    IF k > Len(circ) THEN st ELSE RunFrom(circ, k + 1, ApplyGate(circ[k], st))

\* the state the circuit takes st to
Run(circ, st) == RunFrom(circ, 1, st)

\* the r >= 0 nearest to sqrt(num / den), found by bisection in lo..hi
RECURSIVE SqrtSearch(_, _, _, _)
SqrtSearch(num, den, lo, hi) ==
    IF lo >= hi THEN lo
    ELSE LET mid == (lo + hi + 1) \div 2 IN
         IF (2 * mid - 1) * (2 * mid - 1) * den <= 4 * num
         THEN SqrtSearch(num, den, mid, hi)
         ELSE SqrtSearch(num, den, lo, mid - 1)

\* n / sqrt(2)^h rounded to three decimals, in thousandths
Decimals3(n, h) ==
    LET a == IF n < 0 THEN -n ELSE n
        r == SqrtSearch(a * a * 1000000, 2 ^ h, 0, 1000 * a)
    IN IF n < 0 THEN -r ELSE r

\* result_sim.get_statevector(circuit, decimals=3): complex <<re, im>>
get_statevector(circ) ==
    LET st == Run(circ, ZeroState)
    IN [i \in Basis |-> <<Decimals3(st.amp[i], st.h), 0>>]

\* result_sim.get_unitary(circuit, decimals=3): unitary[y][x]
get_unitary(circ) ==
    [y \in Basis |-> [x \in Basis |->
        LET st == Run(circ, BasisState(x))
        IN <<Decimals3(st.amp[y], st.h), 0>>]]

\* abs() of a complex value, in thousandths
Abs(z) == SqrtSearch(z[1] * z[1] + z[2] * z[2], 1, 0, 2000)

\* the sequences of k naturals that sum to n
RECURSIVE Split(_, _)
Split(k, n) ==
    IF k = 0 THEN (IF n = 0 THEN {<<>>} ELSE {})
    ELSE UNION {{Append(s, j) : s \in Split(k - 1, n - j)} : j \in 0..n}

\* the basis indices a measurement of both qubits can yield
Outcomes(circ) == {i \in Basis : Run(circ, ZeroState).amp[i] # 0}

\* the counts get_counts can return for num_shots runs of circuit + meas_circ:
\* a label missing from the dict has count 0 here
get_counts(circ, num_shots) ==
    LET out == Outcomes(circ)
        rank(i) == Cardinality({j \in out : j <= i})
    IN {[i \in Basis |-> IF i \in out THEN s[rank(i)] ELSE 0] :
           s \in Split(Cardinality(out), num_shots)}

(***************************************************************************)
(* Rects, and the two layout groups.                                       *)
(***************************************************************************)
Rect(l, t, w, h) == [left |-> l, top |-> t, width |-> w, height |-> h]

\* Rect.inflate_ip(dx, dy): the size grows by (dx, dy) about the centre
inflate_ip(r, dx, dy) ==
    Rect(r.left - dx \div 2, r.top - dy \div 2, r.width + dx, r.height + dy)

RECURSIVE HArrangeFrom(_, _, _, _)
HArrangeFrom(rects, k, next_xpos, next_ypos) ==
    IF k > Len(rects) THEN rects
    ELSE HArrangeFrom(
           [rects EXCEPT ![k] = [@ EXCEPT !.left = next_xpos, !.top = next_ypos]],
           k + 1, next_xpos + rects[k].width, next_ypos)

\* next_xpos and next_ypos started from the wrong coordinates
HBox_arrange_swapped(xpos, ypos, rects) == HArrangeFrom(rects, 1, ypos, xpos)

\* HBox.arrange on the rects of self.sprites(), group anchored at (xpos, ypos)
HBox_arrange(xpos, ypos, rects) == HArrangeFrom(rects, 1, xpos, ypos)

RECURSIVE VArrangeFrom(_, _, _, _)
VArrangeFrom(rects, k, next_xpos, next_ypos) ==
    IF k > Len(rects) THEN rects
    ELSE VArrangeFrom(
           [rects EXCEPT ![k] = [@ EXCEPT !.left = next_xpos, !.top = next_ypos]],
           k + 1, next_xpos, next_ypos + rects[k].height)

\* VBox.arrange on the rects of self.sprites(), group anchored at (xpos, ypos)
VBox_arrange(xpos, ypos, rects) == VArrangeFrom(rects, 1, xpos, ypos)

(***************************************************************************)
(* The views: image is what the picture shows, rect where it is drawn.     *)
(***************************************************************************)
\* pygame.Rect truncates a float size: mag thousandths times block_size
CellSide(mag) == (mag * block_size) \div 1000

\* row and column exchanged in the corner of the square
GridCell_transposed(x, y, z) ==
    [rect |-> Rect((y + 1) * block_size + x_offset,
                   (x + 1) * block_size + y_offset,
                   CellSide(Abs(z)), CellSide(Abs(z))),
     drawn |-> Abs(z) > 0]

\* the square of one grid entry and whether pygame.draw.rect is called
GridCell(x, y, z) ==
    [rect |-> Rect((x + 1) * block_size + x_offset,
                   (y + 1) * block_size + y_offset,
                   CellSide(Abs(z)), CellSide(Abs(z))),
     drawn |-> Abs(z) > 0]

\* the loop of StatevectorGrid.set_circuit: one column, x = 0
StatevectorCells(quantum_state) ==
    [y \in DOMAIN quantum_state |-> GridCell(0, y, quantum_state[y])]

\* the loops of UnitaryGrid.set_circuit
UnitaryCells(unitary) ==
    [y \in DOMAIN unitary |->
        [x \in DOMAIN unitary |-> GridCell(x, y, unitary[y][x])]]

CircuitDiagram_set_circuit(circ, size) ==
    [image |-> circ, rect |-> Rect(0, 0, size[1], size[2])]

QSphere_set_circuit(circ, size) ==
    [image |-> get_statevector(circ),
     rect |-> inflate_ip(Rect(0, 0, size[1], size[2]), -100, -100)]

StatevectorGrid_set_circuit(circ) ==
    LET quantum_state == get_statevector(circ)
    IN [image |-> StatevectorCells(quantum_state),
        rect |-> Rect(0, 0, 150, Cardinality(DOMAIN quantum_state) * 50)]

UnitaryGrid_set_circuit(circ) ==
    LET unitary == get_unitary(circ)
    IN [image |-> UnitaryCells(unitary),
        rect |-> Rect(0, 0, Cardinality(DOMAIN unitary) * 50,
                      Cardinality(DOMAIN unitary) * 50)]

MeasurementsHistogram_set_circuit(counts, size) ==
    [image |-> counts, rect |-> Rect(0, 0, size[1], size[2])]

(***************************************************************************)
(* The main loop.                                                          *)
(***************************************************************************)
VARIABLES
    pc,                 \* where main() is
    going,
    cur_bell_state,
    circuit,
    circuit_diagram, unitary_grid, histogram, qsphere, statevector_grid,
    nhandled,           \* events of the current batch already handled
    calls,              \* what the handling of the current event has called
    last_transition,    \* selector before the last arrow key, and its increment
    \* the selector alone, cycled by arrow keys
    origin,             \* the selector the run started from
    sel,                \* the selector now
    trail,              \* the increments applied since, in order
    \* one layout group alone
    box_kind,           \* "HBox" or "VBox"
    box_xpos, box_ypos, \* its anchor
    box_rects,          \* the rects of its sprites, in sprites() order
    arranged,           \* arrange() has run since a rect was last replaced
    \* the two grid views alone, on any amplitudes
    quantum_state,      \* the statevector handed to StatevectorGrid
    unitary,            \* the matrix handed to UnitaryGrid
    sv_cells, u_cells   \* the squares computed from them, <<>> before

cycle_vars == <<origin, sel, trail>>
layout_vars == <<box_kind, box_xpos, box_ypos, box_rects, arranged>>
grid_vars == <<quantum_state, unitary, sv_cells, u_cells>>
unit_vars == <<cycle_vars, layout_vars, grid_vars>>

views == <<circuit_diagram, unitary_grid, histogram, qsphere, statevector_grid>>
main_vars == <<pc, going, cur_bell_state, circuit, views, nhandled, calls,
               last_transition>>
vars == <<main_vars, unit_vars>>

Keys == {"K_ESCAPE", "K_RIGHT", "K_DOWN", "K_LEFT", "K_UP", "K_SPACE"}
Events == {[type |-> "QUIT", key |-> "none"],
           [type |-> "MOUSEMOTION", key |-> "none"]}
          \cup {[type |-> "KEYDOWN", key |-> k] : k \in Keys}

\* the K_ESCAPE branch missing
GoingAfter_no_escape(g, event) ==
    IF event.type = "QUIT" THEN FALSE ELSE g

\* going after the if/elif chain on one event
GoingAfter(g, event) ==
    IF event.type = "QUIT" THEN FALSE
    ELSE IF event.type = "KEYDOWN" /\ event.key = "K_ESCAPE" THEN FALSE
    ELSE g

\* the last elif written as an else: any other key steps back
IndexIncrement_else(event) ==
    IF event.type # "KEYDOWN" THEN 0
    ELSE IF event.key = "K_ESCAPE" THEN 0
    ELSE IF event.key = "K_RIGHT" \/ event.key = "K_DOWN" THEN 1
    ELSE -1

\* index_increment after the if/elif chain; 0 also when no KEYDOWN branch ran
IndexIncrement(event) ==
    IF event.type # "KEYDOWN" THEN 0
    ELSE IF event.key = "K_ESCAPE" THEN 0
    ELSE IF event.key = "K_RIGHT" \/ event.key = "K_DOWN" THEN 1
    ELSE IF event.key = "K_LEFT" \/ event.key = "K_UP" THEN -1
    ELSE 0

\* % of a language whose remainder takes the sign of the dividend
TruncMod(a, n) == IF a < 0 THEN -((-a) % n) ELSE a % n

Advance_trunc(state, index_increment) ==
    TruncMod(state + index_increment, NUM_BELL_STATES)

\* the % NUM_BELL_STATES left out
Advance_no_wrap(state, index_increment) == state + index_increment

\* (cur_bell_state + index_increment) % NUM_BELL_STATES, Python's %
Advance(state, index_increment) ==
    (state + index_increment) % NUM_BELL_STATES

\* the statement that follows statement p in the body of
\* "if index_increment != 0:"; after the last one the for loop goes on
After_skip_view(p) ==
    CASE p = "circuit_diagram" -> "unitary_grid"
      [] p = "unitary_grid" -> "qsphere"
      [] p = "qsphere" -> "histogram"
      [] p = "histogram" -> "left_sprites"
      [] p = "statevector_grid" -> "left_sprites"
      [] p = "left_sprites" -> "middle_sprites"
      [] p = "middle_sprites" -> "right_sprites"
      [] p = "right_sprites" -> "for"

After_no_arrange(p) ==
    CASE p = "circuit_diagram" -> "unitary_grid"
      [] p = "unitary_grid" -> "qsphere"
      [] p = "qsphere" -> "histogram"
      [] p = "histogram" -> "statevector_grid"
      [] p = "statevector_grid" -> "for"
      [] p = "left_sprites" -> "middle_sprites"
      [] p = "middle_sprites" -> "right_sprites"
      [] p = "right_sprites" -> "for"

After(p) ==
    CASE p = "circuit_diagram" -> "unitary_grid"
      [] p = "unitary_grid" -> "qsphere"
      [] p = "qsphere" -> "histogram"
      [] p = "histogram" -> "statevector_grid"
      [] p = "statevector_grid" -> "left_sprites"
      [] p = "left_sprites" -> "middle_sprites"
      [] p = "middle_sprites" -> "right_sprites"
      [] p = "right_sprites" -> "for"

\* the parts of the state a specification does not run
CycleIdle == origin = 0 /\ sel = 0 /\ trail = <<>>
LayoutIdle ==
    /\ box_kind = "none" /\ box_xpos = 0 /\ box_ypos = 0
    /\ box_rects = <<>> /\ arranged = 0
GridIdle ==
    /\ quantum_state = <<>> /\ unitary = <<>>
    /\ sv_cells = <<>> /\ u_cells = <<>>
MainIdle ==
    /\ pc = "idle" /\ going = FALSE /\ cur_bell_state = PHI_PLUS
    /\ circuit = <<>> /\ nhandled = 0 /\ calls = <<>>
    /\ last_transition = [from |-> PHI_PLUS, inc |-> 0]
    /\ circuit_diagram = <<>> /\ unitary_grid = <<>> /\ histogram = <<>>
    /\ qsphere = <<>> /\ statevector_grid = <<>>

\* the view constructors and the three VBox constructors, which arrange
Init ==
    /\ CycleIdle /\ LayoutIdle /\ GridIdle
    /\ pc = "while"
    /\ going = TRUE
    /\ cur_bell_state = PHI_PLUS
    /\ circuit = create_bell_circuit(PHI_PLUS)
    /\ \E s1 \in DiagramSizes, s2 \in HistogramSizes, s3 \in SphereSizes,
          counts \in get_counts(create_bell_circuit(PHI_PLUS), DEFAULT_NUM_SHOTS) :
         LET c == create_bell_circuit(PHI_PLUS)
             cd == CircuitDiagram_set_circuit(c, s1)
             ug == UnitaryGrid_set_circuit(c)
             hi == MeasurementsHistogram_set_circuit(counts, s2)
             qs == QSphere_set_circuit(c, s3)
             sg == StatevectorGrid_set_circuit(c)
             left == VBox_arrange(0, 0, <<cd.rect, qs.rect>>)
             middle == VBox_arrange(600, 0, <<ug.rect, hi.rect>>)
             right == VBox_arrange(1300, 0, <<sg.rect>>)
         IN /\ circuit_diagram = [cd EXCEPT !.rect = left[1]]
            /\ qsphere = [qs EXCEPT !.rect = left[2]]
            /\ unitary_grid = [ug EXCEPT !.rect = middle[1]]
            /\ histogram = [hi EXCEPT !.rect = middle[2]]
            /\ statevector_grid = [sg EXCEPT !.rect = right[1]]
    /\ nhandled = 0
    /\ calls = <<>>
    /\ last_transition = [from |-> PHI_PLUS, inc |-> 0]

\* while going: clock.tick(60); pygame.event.get()
PollEvents ==
    /\ pc = "while" /\ going
    /\ pc' = "for"
    /\ nhandled' = 0
    /\ calls' = <<>>
    /\ UNCHANGED unit_vars
    /\ UNCHANGED <<going, cur_bell_state, circuit, views, last_transition>>

\* one pass of the for loop body on event, up to create_bell_circuit
HandleEvent(event) ==
    /\ pc = "for" /\ nhandled < MaxBatch
    /\ nhandled' = nhandled + 1
    /\ going' = GoingAfter(going, event)
    /\ IF IndexIncrement(event) # 0
       THEN /\ cur_bell_state' = Advance(cur_bell_state, IndexIncrement(event))
            /\ circuit' = create_bell_circuit(cur_bell_state')
            /\ calls' = <<"create_bell_circuit">>
            /\ last_transition' = [from |-> cur_bell_state,
                                   inc |-> IndexIncrement(event)]
            /\ pc' = "circuit_diagram"
       ELSE /\ calls' = <<>>
            /\ pc' = "for"
            /\ UNCHANGED <<cur_bell_state, circuit, last_transition>>
    /\ UNCHANGED unit_vars
    /\ UNCHANGED views

NextEvent == \E event \in Events : HandleEvent(event)

SetCircuitDiagram ==
    /\ pc = "circuit_diagram"
    /\ \E size \in DiagramSizes :
         circuit_diagram' = CircuitDiagram_set_circuit(circuit, size)
    /\ calls' = Append(calls, "circuit_diagram.set_circuit")
    /\ pc' = After(pc)
    /\ UNCHANGED unit_vars
    /\ UNCHANGED <<going, cur_bell_state, circuit, unitary_grid, histogram,
                   qsphere, statevector_grid, nhandled, last_transition>>

SetUnitaryGrid ==
    /\ pc = "unitary_grid"
    /\ unitary_grid' = UnitaryGrid_set_circuit(circuit)
    /\ calls' = calls \o <<"unitary_grid.set_circuit", "unitary_simulator">>
    /\ pc' = After(pc)
    /\ UNCHANGED unit_vars
    /\ UNCHANGED <<going, cur_bell_state, circuit, circuit_diagram, histogram,
                   qsphere, statevector_grid, nhandled, last_transition>>

SetQSphere ==
    /\ pc = "qsphere"
    /\ \E size \in SphereSizes :
         qsphere' = QSphere_set_circuit(circuit, size)
    /\ calls' = calls \o <<"qsphere.set_circuit", "statevector_simulator">>
    /\ pc' = After(pc)
    /\ UNCHANGED unit_vars
    /\ UNCHANGED <<going, cur_bell_state, circuit, circuit_diagram, unitary_grid,
                   histogram, statevector_grid, nhandled, last_transition>>

SetHistogram ==
    /\ pc = "histogram"
    /\ \E size \in HistogramSizes, counts \in get_counts(circuit, DEFAULT_NUM_SHOTS) :
         histogram' = MeasurementsHistogram_set_circuit(counts, size)
    /\ calls' = calls \o <<"histogram.set_circuit", "qasm_simulator">>
    /\ pc' = After(pc)
    /\ UNCHANGED unit_vars
    /\ UNCHANGED <<going, cur_bell_state, circuit, circuit_diagram, unitary_grid,
                   qsphere, statevector_grid, nhandled, last_transition>>

SetStatevectorGrid ==
    /\ pc = "statevector_grid"
    /\ statevector_grid' = StatevectorGrid_set_circuit(circuit)
    /\ calls' = calls \o <<"statevector_grid.set_circuit", "statevector_simulator">>
    /\ pc' = After(pc)
    /\ UNCHANGED unit_vars
    /\ UNCHANGED <<going, cur_bell_state, circuit, circuit_diagram, unitary_grid,
                   histogram, qsphere, nhandled, last_transition>>

ArrangeLeft ==
    /\ pc = "left_sprites"
    /\ LET r == VBox_arrange(0, 0, <<circuit_diagram.rect, qsphere.rect>>)
       IN /\ circuit_diagram' = [circuit_diagram EXCEPT !.rect = r[1]]
          /\ qsphere' = [qsphere EXCEPT !.rect = r[2]]
    /\ calls' = Append(calls, "left_sprites.arrange")
    /\ pc' = After(pc)
    /\ UNCHANGED unit_vars
    /\ UNCHANGED <<going, cur_bell_state, circuit, unitary_grid, histogram,
                   statevector_grid, nhandled, last_transition>>

ArrangeMiddle ==
    /\ pc = "middle_sprites"
    /\ LET r == VBox_arrange(600, 0, <<unitary_grid.rect, histogram.rect>>)
       IN /\ unitary_grid' = [unitary_grid EXCEPT !.rect = r[1]]
          /\ histogram' = [histogram EXCEPT !.rect = r[2]]
    /\ calls' = Append(calls, "middle_sprites.arrange")
    /\ pc' = After(pc)
    /\ UNCHANGED unit_vars
    /\ UNCHANGED <<going, cur_bell_state, circuit, circuit_diagram, qsphere,
                   statevector_grid, nhandled, last_transition>>

ArrangeRight ==
    /\ pc = "right_sprites"
    /\ LET r == VBox_arrange(1300, 0, <<statevector_grid.rect>>)
       IN statevector_grid' = [statevector_grid EXCEPT !.rect = r[1]]
    /\ calls' = Append(calls, "right_sprites.arrange")
    /\ pc' = After(pc)
    /\ UNCHANGED unit_vars
    /\ UNCHANGED <<going, cur_bell_state, circuit, circuit_diagram, unitary_grid,
                   histogram, qsphere, nhandled, last_transition>>

\* the for loop ends: the batch is exhausted
EndOfBatch ==
    /\ pc = "for"
    /\ pc' = "draw"
    /\ UNCHANGED unit_vars
    /\ UNCHANGED <<going, cur_bell_state, circuit, views, nhandled, calls,
                   last_transition>>

\* blit the background, draw the three groups, flip the display
DrawFrame ==
    /\ pc = "draw"
    /\ pc' = "while"
    /\ UNCHANGED unit_vars
    /\ UNCHANGED <<going, cur_bell_state, circuit, views, nhandled, calls,
                   last_transition>>

\* while going fails: pygame.quit()
Quit ==
    /\ pc = "while" /\ ~going
    /\ pc' = "done"
    /\ UNCHANGED unit_vars
    /\ UNCHANGED <<going, cur_bell_state, circuit, views, nhandled, calls,
                   last_transition>>

Next ==
    \/ PollEvents
    \/ NextEvent
    \/ SetCircuitDiagram
    \/ SetUnitaryGrid
    \/ SetQSphere
    \/ SetHistogram
    \/ SetStatevectorGrid
    \/ ArrangeLeft
    \/ ArrangeMiddle
    \/ ArrangeRight
    \/ EndOfBatch
    \/ DrawFrame
    \/ Quit

Spec == Init /\ [][Next]_vars

(***************************************************************************)
(* The selector alone: arrow keys applied to any selector value.           *)
(***************************************************************************)
\* arrow keys followed at most
MaxTrail == 4

CycleInit ==
    /\ MainIdle /\ LayoutIdle /\ GridIdle
    /\ origin \in 0..(NUM_BELL_STATES - 1)
    /\ sel = origin
    /\ trail = <<>>

\* the KEYDOWN branch on an arrow key: the selector assignment
CycleKey(event) ==
    /\ Len(trail) < MaxTrail
    /\ IndexIncrement(event) # 0
    /\ sel' = Advance(sel, IndexIncrement(event))
    /\ trail' = Append(trail, IndexIncrement(event))
    /\ UNCHANGED <<origin, main_vars, layout_vars, grid_vars>>

CycleArrow == \E event \in Events : CycleKey(event)

CycleNext == CycleArrow

SpecCycle == CycleInit /\ [][CycleNext]_vars

(***************************************************************************)
(* One layout group alone, on panels of any size.                          *)
(***************************************************************************)
\* sprites in the group at most
MaxPanels == 3

PanelSizes == {<<100, 50>>, <<80, 60>>, <<0, 0>>, <<150, 200>>}
Anchors == {<<0, 0>>, <<600, 10>>}
\* where a rect is before arrange: get_rect gives (0, 0), inflate_ip moves it
RawPositions == {<<0, 0>>, <<50, 50>>}

BoxArrange(kind, xpos, ypos, rects) ==
    IF kind = "HBox" THEN HBox_arrange(xpos, ypos, rects)
    ELSE VBox_arrange(xpos, ypos, rects)

\* HBox.__init__ / VBox.__init__: the sprites are added, then arrange()
LayoutInit ==
    /\ MainIdle /\ CycleIdle /\ GridIdle
    /\ box_kind \in {"HBox", "VBox"}
    /\ \E a \in Anchors : box_xpos = a[1] /\ box_ypos = a[2]
    /\ \E n \in 1..MaxPanels : \E sizes \in [1..n -> PanelSizes] :
         box_rects = BoxArrange(box_kind, box_xpos, box_ypos,
                        [k \in 1..n |-> Rect(0, 0, sizes[k][1], sizes[k][2])])
    /\ arranged = 1

\* arrange(); arranged counts the calls since a rect was replaced, up to 2
LayoutArrange ==
    /\ box_rects' = BoxArrange(box_kind, box_xpos, box_ypos, box_rects)
    /\ arranged' = IF arranged < 2 THEN arranged + 1 ELSE 2
    /\ UNCHANGED <<box_kind, box_xpos, box_ypos, main_vars, cycle_vars, grid_vars>>

\* a set_circuit of sprite k: its rect is replaced by a fresh one
LayoutReplace ==
    /\ \E k \in DOMAIN box_rects, size \in PanelSizes, p \in RawPositions :
         box_rects' = [box_rects EXCEPT ![k] = Rect(p[1], p[2], size[1], size[2])]
    /\ arranged' = 0
    /\ UNCHANGED <<box_kind, box_xpos, box_ypos, main_vars, cycle_vars, grid_vars>>

LayoutNext == LayoutArrange \/ LayoutReplace

SpecLayout == LayoutInit /\ [][LayoutNext]_vars

(***************************************************************************)
(* The two grid views alone, on any amplitudes of magnitude 0, 0.5 or 1.   *)
(***************************************************************************)
\* complex values <<re, im>> in thousandths
Amplitudes == {<<0, 0>>, <<500, 0>>, <<-1000, 0>>, <<0, -500>>,
               <<300, -400>>, <<600, 800>>}

\* any statevector over Amplitudes, and the matrix whose row y is the
\* vector rotated by y, so that every value meets every row and column
GridInit ==
    /\ MainIdle /\ CycleIdle /\ LayoutIdle
    /\ quantum_state \in [Basis -> Amplitudes]
    /\ unitary = [y \in Basis |-> [x \in Basis |-> quantum_state[(x + y) % 4]]]
    /\ sv_cells = <<>>
    /\ u_cells = <<>>

GridStatevector ==
    /\ sv_cells' = StatevectorCells(quantum_state)
    /\ UNCHANGED <<quantum_state, unitary, u_cells, main_vars, cycle_vars,
                   layout_vars>>

GridUnitary ==
    /\ u_cells' = UnitaryCells(unitary)
    /\ UNCHANGED <<quantum_state, unitary, sv_cells, main_vars, cycle_vars,
                   layout_vars>>

GridNext == GridStatevector \/ GridUnitary

SpecGrid == GridInit /\ [][GridNext]_vars

(***************************************************************************)
(* What the claims speak of, stated apart from the code above.             *)
(***************************************************************************)
IsArrowKeydown(event) ==
    event.type = "KEYDOWN" /\ event.key \in {"K_RIGHT", "K_DOWN", "K_LEFT", "K_UP"}

IsQuitEvent(event) ==
    event.type = "QUIT" \/ (event.type = "KEYDOWN" /\ event.key = "K_ESCAPE")

SetCalls == {"circuit_diagram.set_circuit", "unitary_grid.set_circuit",
             "qsphere.set_circuit", "histogram.set_circuit",
             "statevector_grid.set_circuit"}
ArrangeCalls == {"left_sprites.arrange", "middle_sprites.arrange",
                 "right_sprites.arrange"}
SimulatorCalls == {"unitary_simulator", "statevector_simulator", "qasm_simulator"}

\* how often x occurs in the sequence s, and where it first does (0: nowhere)
Count(s, x) == Cardinality({k \in DOMAIN s : s[k] = x})
CountIn(s, X) == Cardinality({k \in DOMAIN s : s[k] \in X})
Pos(s, x) == IF Count(s, x) = 0 THEN 0
             ELSE CHOOSE k \in DOMAIN s : s[k] = x /\ \A j \in 1..(k - 1) : s[j] # x

\* the statements of one effective transition
Recomputing == {"circuit_diagram", "unitary_grid", "qsphere", "histogram",
                "statevector_grid", "left_sprites", "middle_sprites",
                "right_sprites"}

Total(counts) == counts[0] + counts[1] + counts[2] + counts[3]

\* the labels a Bell type may populate
ConsistentLabels(b) ==
    IF b = PHI_PLUS \/ b = PHI_MINUS THEN {"00", "11"} ELSE {"01", "10"}

(***************************************************************************)
(* C1: in every reachable state of the main loop the selector              *)
(* cur_bell_state is one of 0, 1, 2, 3; a 'previous' event in state 0      *)
(* yields 3 and a 'next' event in state 3 yields 0.                        *)
(***************************************************************************)
C1_SelectorInRange ==
    /\ cur_bell_state \in {PHI_PLUS, PHI_MINUS, PSI_PLUS, PSI_MINUS}
    /\ (last_transition.inc = -1 /\ last_transition.from = 0) => cur_bell_state = 3
    /\ (last_transition.inc = 1 /\ last_transition.from = 3) => cur_bell_state = 0

\* a 'previous' event was handled in state 0
C1_Witness ==
    /\ last_transition = [from |-> 0, inc |-> -1]
    /\ cur_bell_state = 3
    /\ pc = "draw"

(***************************************************************************)
(* C2: handling an event that is no arrow KEYDOWN (another key, ESC        *)
(* included, or no KEYDOWN at all) leaves selector, circuit and the five   *)
(* views unchanged and calls nothing; selector and circuit change only in  *)
(* the handling of an arrow KEYDOWN, views change and simulators run only  *)
(* in the recomputation it starts, and that recomputation runs every       *)
(* set_circuit exactly once (four simulator calls in all).                 *)
(***************************************************************************)
C2_OnlyArrowsRecompute ==
    [][/\ \A e \in Events :
            (HandleEvent(e) /\ ~IsArrowKeydown(e))
              => /\ UNCHANGED <<cur_bell_state, circuit, views>>
                 /\ calls' = <<>>
                 /\ pc' = "for"
       /\ \A e \in Events :
            (HandleEvent(e) /\ IsArrowKeydown(e))
              => /\ cur_bell_state' # cur_bell_state
                 /\ pc' = "circuit_diagram"
       /\ (cur_bell_state' # cur_bell_state \/ circuit' # circuit)
            => \E e \in Events : IsArrowKeydown(e) /\ HandleEvent(e)
       /\ (views' # views
             \/ CountIn(calls', SimulatorCalls) > CountIn(calls, SimulatorCalls))
            => pc \in Recomputing /\ last_transition.inc \in {1, -1}
       /\ (pc = "right_sprites" /\ pc' = "for")
            => /\ \A c \in SetCalls \cup ArrangeCalls : Count(calls', c) = 1
               /\ Count(calls', "create_bell_circuit") = 1
               /\ CountIn(calls', SimulatorCalls) = 4
      ]_vars

\* an arrow key was handled, then an event that is none: nothing was called
C2_Witness ==
    /\ pc = "for" /\ nhandled = 2 /\ calls = <<>>
    /\ last_transition = [from |-> 0, inc |-> 1]
    /\ cur_bell_state = 1

(***************************************************************************)
(* C3: within one effective transition the selector is updated and the     *)
(* circuit rebuilt for the new selector first, then each of the five       *)
(* views has set_circuit run against the new circuit, and arrange() of a   *)
(* group is called only after all five; when the handling ends no view     *)
(* and no group was skipped.                                               *)
(***************************************************************************)
C3_TransitionOrder ==
    calls # <<>> =>
      /\ calls[1] = "create_bell_circuit"
      /\ cur_bell_state = (last_transition.from + last_transition.inc + 4) % 4
      /\ circuit = create_bell_circuit(cur_bell_state)
      /\ \A a \in ArrangeCalls : Pos(calls, a) > 0 =>
           \A c \in SetCalls : 0 < Pos(calls, c) /\ Pos(calls, c) < Pos(calls, a)
      /\ Pos(calls, "circuit_diagram.set_circuit") > 0
           => circuit_diagram.image = circuit
      /\ Pos(calls, "unitary_grid.set_circuit") > 0
           => unitary_grid.image = UnitaryCells(get_unitary(circuit))
      /\ Pos(calls, "qsphere.set_circuit") > 0
           => qsphere.image = get_statevector(circuit)
      /\ Pos(calls, "histogram.set_circuit") > 0
           => /\ \A i \in Basis : histogram.image[i] > 0 => i \in Outcomes(circuit)
              /\ Total(histogram.image) = DEFAULT_NUM_SHOTS
      /\ Pos(calls, "statevector_grid.set_circuit") > 0
           => statevector_grid.image = StatevectorCells(get_statevector(circuit))
      /\ pc = "for" => \A c \in SetCalls \cup ArrangeCalls : Pos(calls, c) > 0

\* the handling of an arrow key has just ended
C3_Witness ==
    /\ pc = "for" /\ Len(calls) = 13
    /\ cur_bell_state = PSI_MINUS
    /\ last_transition = [from |-> 0, inc |-> -1]
    /\ calls[13] = "right_sprites.arrange"

(***************************************************************************)
(* C4: from every selector value s, a 'next' event followed by a           *)
(* 'previous' event returns the selector to s, 'previous' then 'next'      *)
(* returns it to s, and four 'next' events in a row return it to s.        *)
(***************************************************************************)
C4_GroupAction ==
    /\ trail = <<1, -1>> => sel = origin
    /\ trail = <<-1, 1>> => sel = origin
    /\ trail = <<1, 1, 1, 1>> => sel = origin

\* four 'next' events were handled from PSI_MINUS
C4_Witness ==
    /\ origin = PSI_MINUS
    /\ trail = <<1, 1, 1, 1>>
    /\ sel = PSI_MINUS

(***************************************************************************)
(* C5: the gate sequence of each selector takes |00> to the closed-form    *)
(* Bell state: PHI_PLUS +1/sqrt(2) on '00' and '11'; PHI_MINUS the same    *)
(* with the sign of '11' negated; PSI_PLUS +1/sqrt(2) on '01' and '10';    *)
(* PSI_MINUS the same magnitudes with opposite signs on '01' and '10';     *)
(* 0 elsewhere.  The statevector handed back holds these to 3 decimals.    *)
(***************************************************************************)
\* the amplitude numerator (over sqrt(2)) the claim gives label l of type b
IsClosedForm(b, amp) ==
    LET a(l) == amp[CHOOSE i \in Basis : COMP_BASIS_STATES[i + 1] = l] IN
    CASE b = PHI_PLUS ->
           a("00") = 1 /\ a("11") = 1 /\ a("01") = 0 /\ a("10") = 0
      [] b = PHI_MINUS ->
           a("00") = 1 /\ a("11") = -1 /\ a("01") = 0 /\ a("10") = 0
      [] b = PSI_PLUS ->
           a("01") = 1 /\ a("10") = 1 /\ a("00") = 0 /\ a("11") = 0
      [] b = PSI_MINUS ->
           /\ a("01") \in {1, -1} /\ a("10") = -a("01")
           /\ a("00") = 0 /\ a("11") = 0

C5_BellStates ==
    pc # "idle" =>
      LET st == Run(circuit, ZeroState) IN
      /\ st.h = 1
      /\ IsClosedForm(cur_bell_state, st.amp)
      /\ pc \notin {"circuit_diagram", "unitary_grid", "qsphere"}
           => \A i \in Basis : qsphere.image[i] = <<707 * st.amp[i], 0>>

\* PSI_MINUS is on show
C5_Witness ==
    /\ pc = "draw"
    /\ cur_bell_state = PSI_MINUS
    /\ qsphere.image[1] = <<-707, 0>>
    /\ qsphere.image[2] = <<707, 0>>

(***************************************************************************)
(* C6: every measurement run (shots=100) of the Bell circuit of a          *)
(* selector has non-zero counts only on the two labels of its Bell type    *)
(* ('00', '11' for PHI_PLUS and PHI_MINUS; '01', '10' for PSI_PLUS and     *)
(* PSI_MINUS), and its counts sum to exactly 100.                          *)
(***************************************************************************)
\* the selector the histogram on show was measured for
HistogramSelector ==
    IF pc \in {"circuit_diagram", "unitary_grid", "qsphere", "histogram"}
    THEN last_transition.from
    ELSE cur_bell_state

C6_MeasurementCounts ==
    pc # "idle" =>
      /\ \A i \in Basis :
           histogram.image[i] > 0
             => COMP_BASIS_STATES[i + 1] \in ConsistentLabels(HistogramSelector)
      /\ \A i \in Basis : histogram.image[i] >= 0
      /\ Total(histogram.image) = 100

\* a run for PSI_PLUS that saw both labels
C6_Witness ==
    /\ pc = "statevector_grid"
    /\ cur_bell_state = PSI_PLUS
    /\ histogram.image[1] = 37 /\ histogram.image[2] = 63

(***************************************************************************)
(* C7: after arrange() on a group anchored at (x0, y0): in an HBox every   *)
(* panel's top is y0 and panel i's left is x0 plus the widths of the       *)
(* panels before it; in a VBox every left is x0 and panel i's top is y0    *)
(* plus the heights of the panels before it.  Panels do not overlap along  *)
(* the stacking axis, another arrange() moves nothing, and panels          *)
(* (100,50), (80,60) at (0,0) get lefts 0, 100 and tops 0, 0 in an HBox,   *)
(* tops 0, 50 and lefts 0, 0 in a VBox.                                    *)
(***************************************************************************)
RECURSIVE WidthsBefore(_, _)
WidthsBefore(rects, i) ==
    IF i <= 1 THEN 0 ELSE WidthsBefore(rects, i - 1) + rects[i - 1].width

RECURSIVE HeightsBefore(_, _)
HeightsBefore(rects, i) ==
    IF i <= 1 THEN 0 ELSE HeightsBefore(rects, i - 1) + rects[i - 1].height

SizesOf(rects) == [k \in DOMAIN rects |-> <<rects[k].width, rects[k].height>>]

C7_Arranged ==
    arranged >= 1 =>
      /\ box_kind = "HBox" =>
           \A i \in DOMAIN box_rects :
             /\ box_rects[i].top = box_ypos
             /\ box_rects[i].left = box_xpos + WidthsBefore(box_rects, i)
             /\ \A j \in DOMAIN box_rects :
                  i < j => box_rects[i].left + box_rects[i].width <= box_rects[j].left
      /\ box_kind = "VBox" =>
           \A i \in DOMAIN box_rects :
             /\ box_rects[i].left = box_xpos
             /\ box_rects[i].top = box_ypos + HeightsBefore(box_rects, i)
             /\ \A j \in DOMAIN box_rects :
                  i < j => box_rects[i].top + box_rects[i].height <= box_rects[j].top
      /\ BoxArrange(box_kind, box_xpos, box_ypos, box_rects) = box_rects
      /\ (/\ box_xpos = 0 /\ box_ypos = 0
          /\ SizesOf(box_rects) = <<<<100, 50>>, <<80, 60>>>>)
           => IF box_kind = "HBox"
              THEN /\ box_rects[1].left = 0 /\ box_rects[2].left = 100
                   /\ box_rects[1].top = 0 /\ box_rects[2].top = 0
              ELSE /\ box_rects[1].top = 0 /\ box_rects[2].top = 50
                   /\ box_rects[1].left = 0 /\ box_rects[2].left = 0

\* the HBox of the example, arranged a second time
C7_Witness ==
    /\ arranged = 2
    /\ box_kind = "HBox" /\ box_xpos = 0 /\ box_ypos = 0
    /\ box_rects = <<Rect(0, 0, 100, 50), Rect(100, 0, 80, 60)>>

(***************************************************************************)
(* C8: for amplitudes of magnitude 0, 0.5 or 1 each grid view computes,    *)
(* for every row r and column c, one square whose width and height are     *)
(* magnitude times the pitch (never negative, never above one pitch, one   *)
(* pitch exactly for magnitude 1), whose top-left corner is                *)
(* (x_offset + (c+1) pitch, y_offset + (r+1) pitch) whatever the value,    *)
(* and which is drawn iff the magnitude is above 0.                        *)
(***************************************************************************)
\* the magnitude of z in thousandths: the one of 0, 500, 1000 it has
Magnitude(z) == CHOOSE m \in {0, 500, 1000} : m * m = z[1] * z[1] + z[2] * z[2]

CellAsClaimed(cell, r, c, z) ==
    /\ 1000 * cell.rect.width = Magnitude(z) * 30
    /\ cell.rect.height = cell.rect.width
    /\ cell.rect.width >= 0 /\ cell.rect.width <= 30
    /\ Magnitude(z) = 1000 => cell.rect.width = 30
    /\ cell.rect.left = 50 + (c + 1) * 30
    /\ cell.rect.top = 50 + (r + 1) * 30
    /\ cell.drawn <=> Magnitude(z) > 0

C8_GridCells ==
    /\ sv_cells # <<>> =>
         /\ DOMAIN sv_cells = Basis
         /\ \A r \in Basis : CellAsClaimed(sv_cells[r], r, 0, quantum_state[r])
    /\ u_cells # <<>> =>
         /\ DOMAIN u_cells = Basis
         /\ \A r \in Basis :
              /\ DOMAIN u_cells[r] = Basis
              /\ \A c \in Basis : CellAsClaimed(u_cells[r][c], r, c, unitary[r][c])

\* both grids computed from amplitudes of every magnitude
C8_Witness ==
    /\ quantum_state = [i \in Basis |->
                          CASE i = 0 -> <<0, 0>> [] i = 1 -> <<300, -400>>
                            [] i = 2 -> <<-1000, 0>> [] i = 3 -> <<0, -500>>]
    /\ sv_cells # <<>> /\ u_cells # <<>>
    /\ sv_cells[1].rect = Rect(80, 110, 15, 15)
    /\ ~sv_cells[0].drawn
    /\ u_cells[3][3].rect = Rect(170, 170, 30, 30)

(***************************************************************************)
(* C9: at every render step all five views hold content computed from      *)
(* the circuit of the current selector, and every panel is where           *)
(* arrange() puts it for its current size.                                 *)
(***************************************************************************)
C9_RenderedFrame ==
    pc = "draw" =>
      LET c == create_bell_circuit(cur_bell_state) IN
      /\ circuit_diagram.image = c
      /\ unitary_grid.image = UnitaryCells(get_unitary(c))
      /\ qsphere.image = get_statevector(c)
      /\ statevector_grid.image = StatevectorCells(get_statevector(c))
      /\ \A i \in Basis : histogram.image[i] > 0 => i \in Outcomes(c)
      /\ circuit_diagram.rect.left = 0 /\ circuit_diagram.rect.top = 0
      /\ qsphere.rect.left = 0
      /\ qsphere.rect.top = circuit_diagram.rect.height
      /\ unitary_grid.rect.left = 600 /\ unitary_grid.rect.top = 0
      /\ histogram.rect.left = 600
      /\ histogram.rect.top = unitary_grid.rect.height
      /\ statevector_grid.rect.left = 1300 /\ statevector_grid.rect.top = 0
      /\ VBox_arrange(0, 0, <<circuit_diagram.rect, qsphere.rect>>)
           = <<circuit_diagram.rect, qsphere.rect>>
      /\ VBox_arrange(600, 0, <<unitary_grid.rect, histogram.rect>>)
           = <<unitary_grid.rect, histogram.rect>>
      /\ VBox_arrange(1300, 0, <<statevector_grid.rect>>)
           = <<statevector_grid.rect>>

\* a frame in which two arrow keys were handled
C9_Witness ==
    /\ pc = "draw" /\ nhandled = 2 /\ going
    /\ cur_bell_state = PSI_PLUS
    /\ last_transition = [from |-> PHI_MINUS, inc |-> 1]
    /\ circuit_diagram.rect.height = 300
    /\ qsphere.rect = Rect(0, 300, 600, 600)

(***************************************************************************)
(* C10, as claimed: once a quit event has been handled the selector        *)
(* never changes again and nothing is recomputed, also when arrow keys     *)
(* follow the quit event in the batch.                                     *)
(***************************************************************************)
C10_NothingAfterQuit ==
    [][~going => UNCHANGED <<cur_bell_state, circuit, views>>]_vars

(***************************************************************************)
(* C10, amended: a QUIT event or an ESC KEYDOWN clears going, which is     *)
(* never set again; from then on no batch of events is polled, selector,   *)
(* circuit and views change only in the handling of arrow keys left in     *)
(* the batch already polled, and once that batch is left nothing changes:  *)
(* the frame is drawn and the loop ends.  Every step after the quit event  *)
(* brings the end of the loop nearer.                                      *)
(***************************************************************************)
\* the steps main() can still take once going is FALSE, at most
QuitRank ==
    LET left == 10 * (MaxBatch - nhandled) IN
    CASE pc = "done" -> 0
      [] pc = "while" -> 1
      [] pc = "draw" -> 2
      [] pc = "for" -> 3 + left
      [] pc = "right_sprites" -> 4 + left
      [] pc = "middle_sprites" -> 5 + left
      [] pc = "left_sprites" -> 6 + left
      [] pc = "statevector_grid" -> 7 + left
      [] pc = "histogram" -> 8 + left
      [] pc = "qsphere" -> 9 + left
      [] pc = "unitary_grid" -> 10 + left
      [] pc = "circuit_diagram" -> 11 + left
      [] OTHER -> 0

C10_QuitEndsLoop ==
    [][/\ \A e \in Events : (HandleEvent(e) /\ IsQuitEvent(e)) => ~going'
       /\ ~going =>
            /\ ~going'
            /\ ~(pc = "while" /\ pc' = "for")
            /\ nhandled' >= nhandled
            /\ QuitRank' < QuitRank /\ QuitRank' >= 0
            /\ cur_bell_state' # cur_bell_state
                 => \E e \in Events : IsArrowKeydown(e) /\ HandleEvent(e)
            /\ (views' # views \/ circuit' # circuit)
                 => pc \in Recomputing \cup {"for"}
            /\ pc \in {"draw", "while", "done"}
                 => /\ UNCHANGED <<cur_bell_state, circuit, views>>
                    /\ pc' = IF pc = "draw" THEN "while" ELSE "done"
      ]_vars

\* ESC then an arrow key in one batch, and the loop has ended
C10_Witness ==
    /\ pc = "done" /\ ~going
    /\ nhandled = 2 /\ Len(calls) = 13
    /\ cur_bell_state = PHI_MINUS

=============================================================================
